---- MODULE Spec2Model ----
(***************************************************************************)
(* Ticket Booking System (FastAPI + SQLAlchemy): the four tables and the   *)
(* request handlers of app/api/v1/endpoints, as a state machine.           *)
(*                                                                         *)
(* Abstractions: names, addresses, customer fields and dates carry no      *)
(* logic and are left out; prices are small integers (the Float product    *)
(* price * quantity is exact on them).  An optional request field is a     *)
(* record [kind, v]: kind "unset" (absent from the JSON body), "null"      *)
(* (present with value null) or "int".                                     *)
(*                                                                         *)
(* Basic Task Management API: the in-memory TaskService (a list of tasks   *)
(* and an id counter) and its methods; timestamps are readings of a        *)
(* logical clock.                                                          *)
(***************************************************************************)
EXTENDS Integers, FiniteSets, Sequences, TLC

\* ---------------------------------------------------------------- bounds
MaxVenues == 1
MaxEvents == 2
MaxTicketTypes == 1
MaxBookings == 2
MaxCapacity == 2
MaxQuantity == 2
MaxPrice == 2
NumClients == 2
\* the narrower side of each scope (see Scopes)
NarrowEvents == 1
NarrowPrices == 1
NarrowNames == 1
\* the scope of the ticket-type names (see NamesScope)
MaxNames == 2
NamedTicketTypes == 2
NamedBookings == 1
NamedCapacity == 1
\* two venues, around one event with one booking
TwoVenues == 2
MovedBookings == 1
\* the task service: the largest id handed out, and the latest clock reading
MaxTaskId == 3
MaxClock == 2
MaxTitles == 2
MaxDescriptions == 1
\* the narrower side of each task scope (see TaskScopes)
NarrowTaskId == 2
NarrowClock == 1
NarrowTitles == 1
NarrowDescriptions == 0

\* venues, events, ticket_types, bookings: the four tables, id -> row
\* last:   the previous request (operation, arguments) and its outcome
\* before: the four tables as they were when that request arrived
\* reqs:   per client, a create_booking request in progress (SpecConc only)
\* scope:  the bounds this run explores (fixed by Init)
VARIABLES venues, events, ticket_types, bookings, last, before, reqs, scope

\* Basic Task Management API, the TaskService singleton:
\* tasks:   self._tasks, the list of Task objects
\* next_id: self._next_id
\* clock:   the latest time datetime.now() has returned
\* tlast:   the previous call of a TaskService method, and what it returned
\* tbefore: tasks, next_id and issued as they were when that call was made
\* issued:  the ids create_task has returned since the service was constructed
\*          or last cleared, oldest first
VARIABLES tasks, next_id, clock, tlast, tbefore, issued

taskVars == <<tasks, next_id, clock, tlast, tbefore, issued>>
bookingVars == <<venues, events, ticket_types, bookings, last, before, reqs>>
vars == <<venues, events, ticket_types, bookings, last, before, reqs, scope,
          tasks, next_id, clock, tlast, tbefore, issued>>
Tables == [venues |-> venues, events |-> events, ticket_types |-> ticket_types,
           bookings |-> bookings]

\* Row caps per table and largest request values.  CapacityScope has two events
\* and one price; PricingScope has one event and two prices.
CapacityScope ==
    [venues |-> MaxVenues, events |-> MaxEvents, ticket_types |-> MaxTicketTypes,
     bookings |-> MaxBookings, capacity |-> MaxCapacity, quantity |-> MaxQuantity,
     price |-> NarrowPrices, names |-> NarrowNames, faults |-> FALSE]
PricingScope ==
    [venues |-> MaxVenues, events |-> NarrowEvents, ticket_types |-> MaxTicketTypes,
     bookings |-> MaxBookings, capacity |-> MaxCapacity, quantity |-> MaxQuantity,
     price |-> MaxPrice, names |-> NarrowNames, faults |-> FALSE]
Scopes == {CapacityScope, PricingScope}
\* concurrent create_booking requests against one event
ConcScope ==
    [venues |-> MaxVenues, events |-> NarrowEvents, ticket_types |-> MaxTicketTypes,
     bookings |-> MaxBookings, capacity |-> MaxCapacity, quantity |-> MaxQuantity,
     price |-> NarrowPrices, names |-> NarrowNames, faults |-> FALSE]
\* two ticket types and two names, around one event with one booking
NamesScope ==
    [venues |-> MaxVenues, events |-> NarrowEvents, ticket_types |-> NamedTicketTypes,
     bookings |-> NamedBookings, capacity |-> NamedCapacity,
     quantity |-> NamedCapacity, price |-> NarrowPrices, names |-> MaxNames, faults |-> FALSE]

\* two venues, for an event that moves from one to the other
VenueScope ==
    [venues |-> TwoVenues, events |-> NarrowEvents, ticket_types |-> MaxTicketTypes,
     bookings |-> MovedBookings, capacity |-> MaxCapacity, quantity |-> MaxQuantity,
     price |-> NarrowPrices, names |-> NarrowNames, faults |-> FALSE]

\* one event and one price, with a store whose commits may fail
FaultScope ==
    [venues |-> MaxVenues, events |-> NarrowEvents, ticket_types |-> MaxTicketTypes,
     bookings |-> MaxBookings, capacity |-> MaxCapacity, quantity |-> MaxQuantity,
     price |-> NarrowPrices, names |-> NarrowNames, faults |-> TRUE]

\* ------------------------------------------------- optional request fields
UnsetV == [kind |-> "unset", v |-> 0]
NullV == [kind |-> "null", v |-> 0]
IntV(n) == [kind |-> "int", v |-> n]
OptInts(lo, hi) == {UnsetV, NullV} \cup {IntV(n) : n \in lo..hi}
\* the same for an Optional[str]
UnsetName == [kind |-> "unset", v |-> ""]
NullName == [kind |-> "null", v |-> ""]
StrV(s) == [kind |-> "str", v |-> s]
\* Field(..., min_length=1)
MinLength1(s) == s # ""
\* Field(None, min_length=1) on an Optional[str]
OptMinLength1(x) == x.kind # "str" \/ MinLength1(x.v)

\* (variant: Field(None, ge=0) on the Optional[int])
OptGeZero(x) == x.kind # "int" \/ x.v >= 0
\* pydantic Field(None, gt=0) on an Optional[int]: None passes, an int must be > 0
OptGtZero(x) == x.kind # "int" \/ x.v > 0
\* (variant: ge=0 in place of gt=0)
GtZeroOrZero(n) == n >= 0
\* pydantic Field(..., gt=0)
GtZero(n) == n > 0

\* ------------------------------------------------------------ the tables
Max(S) == CHOOSE x \in S : \A y \in S : y <= x

\* SQLite INTEGER PRIMARY KEY without AUTOINCREMENT: largest rowid in use + 1
NextId(tbl) == IF DOMAIN tbl = {} THEN 1 ELSE Max(DOMAIN tbl) + 1

Insert(tbl, id, row) == tbl @@ (id :> row)
Remove(tbl, ids) == [x \in DOMAIN tbl \ ids |-> tbl[x]]

StatusPattern == {"pending", "confirmed", "cancelled"}
BookingDefaultStatus == "pending"

\* what the previous request was and how it ended
NoReq ==
    [op |-> "none", result |-> "none", id |-> 0, venue_id |-> UnsetV, event_id |-> 0,
     ticket_type_id |-> 0, num |-> UnsetV, status |-> "unset", available |-> 0,
     name |-> UnsetName]

Idle == [pc |-> "idle", event_id |-> 0, ticket_type_id |-> 0, quantity |-> 0,
         total_existing_tickets |-> 0, price |-> 0, total_price |-> 0]

\* a Task that is returned by no call
NoTask == [id |-> 0, title |-> "", description |-> NullName, completed |-> FALSE,
           created_at |-> 0, updated_at |-> 0]
NoneBool == [kind |-> "null", v |-> FALSE]
BoolV(b) == [kind |-> "bool", v |-> b]

NoCall ==
    [op |-> "none", result |-> "none", task_id |-> 0, title |-> NullName,
     description |-> NullName, completed |-> NoneBool, task |-> NoTask,
     list |-> <<>>, count |-> 0]

\* TaskService.__init__, and the module-level task_service = TaskService()
TaskServiceInit ==
    /\ tasks = <<>>
    /\ next_id = 1
    /\ clock = 0
    /\ tlast = NoCall
    /\ issued = <<>>
    /\ tbefore = [tasks |-> <<>>, next_id |-> 1, issued |-> <<>>]

EmptyTables ==
    /\ TaskServiceInit
    /\ venues = <<>>
    /\ events = <<>>
    /\ ticket_types = <<>>
    /\ bookings = <<>>
    /\ last = NoReq
    /\ before = Tables
    /\ reqs = [p \in 1..NumClients |-> Idle]

Init == EmptyTables /\ scope \in Scopes

\* the end of a request: its outcome, and the tables it started from
Answer(req, result) ==
    /\ last' = [req EXCEPT !.result = result]
    /\ before' = Tables
    /\ UNCHANGED <<scope, taskVars>>

\* a handler that runs from start to end with no other request in between
Respond(req, result) == Answer(req, result) /\ UNCHANGED reqs

\* The HTTP status of an outcome: 201 for a create, 204 for a delete, 200
\* otherwise; 422 from request validation, 404 for a missing row, and
\* HTTP_400_BAD_REQUEST for every other HTTPException the handlers raise, the ones
\* of their except branches included.
HttpStatus(op, result) ==
    CASE result = "ok" ->
            IF op \in {"create_venue", "create_event", "create_ticket_type",
                       "create_booking"} THEN 201
            ELSE IF op \in {"delete_venue", "delete_event", "delete_ticket_type",
                            "delete_booking"} THEN 204
            ELSE 200
      [] result = "InvalidArgument" -> 422
      [] result \in {"NotFoundVenue", "NotFoundEvent", "NotFoundTicketType",
                     "NotFoundBooking"} -> 404
      [] OTHER -> 400

\* db.commit() returns, or raises and the except branch rolls back; a store that
\* fails is part of the scope
Commits == IF scope.faults THEN BOOLEAN ELSE {TRUE}

\* ---------------------------------------------------------------- venues
CreateVenue(capacity) ==
    LET req == [NoReq EXCEPT !.op = "create_venue", !.num = IntV(capacity)]
    IN
    /\ UNCHANGED <<events, ticket_types, bookings>>
    /\ IF ~GtZero(capacity)
       THEN /\ Respond(req, "InvalidArgument")
            /\ UNCHANGED venues
       ELSE \E committed \in Commits :
            IF committed
            THEN /\ NextId(venues) <= scope.venues
                 /\ venues' = Insert(venues, NextId(venues), [capacity |-> capacity])
                 /\ Respond([req EXCEPT !.id = NextId(venues)], "ok")
            ELSE \* db.commit() raises: db.rollback(), HTTP 400
                 /\ Respond(req, "StoreFailure")
                 /\ UNCHANGED venues

UpdateVenue(venue_id, capacity) ==
    LET req == [NoReq EXCEPT !.op = "update_venue", !.id = venue_id, !.num = capacity]
    IN
    /\ UNCHANGED <<events, ticket_types, bookings>>
    /\ IF ~OptGtZero(capacity)
       THEN /\ Respond(req, "InvalidArgument")
            /\ UNCHANGED venues
       ELSE IF venue_id \notin DOMAIN venues
       THEN /\ Respond(req, "NotFoundVenue")
            /\ UNCHANGED venues
       ELSE IF capacity.kind = "null"
       THEN \* capacity is NOT NULL: the commit fails and is rolled back
            /\ Respond(req, "StoreFailure")
            /\ UNCHANGED venues
       ELSE \E committed \in Commits :
            IF committed
            THEN /\ venues' = IF capacity.kind = "int"
                              THEN [venues EXCEPT ![venue_id].capacity = capacity.v]
                              ELSE venues
                 /\ Respond(req, "ok")
            ELSE \* db.commit() raises: db.rollback(), HTTP 400
                 /\ Respond(req, "StoreFailure")
                 /\ UNCHANGED venues

\* (variant: no cascade from a venue to its events)
EventsOfNoVenue(venue_id) == {}
\* Venue.events: the events whose venue_id is the venue's id
EventsOfVenue(venue_id) == {e \in DOMAIN events : events[e].venue_id = venue_id}
\* (variant: no cascade from an event to its bookings)
BookingsOfNoEvent(es) == {}
BookingsOfEvents(es) == {b \in DOMAIN bookings : bookings[b].event_id \in es}

DeleteVenue(venue_id) ==
    LET req == [NoReq EXCEPT !.op = "delete_venue", !.id = venue_id]
    IN
    /\ UNCHANGED ticket_types
    /\ IF venue_id \notin DOMAIN venues
       THEN /\ Respond(req, "NotFoundVenue")
            /\ UNCHANGED <<venues, events, bookings>>
       ELSE \* cascade="all, delete-orphan" on Venue.events and on Event.bookings
            \E committed \in Commits :
            IF committed
            THEN /\ venues' = Remove(venues, {venue_id})
                 /\ events' = Remove(events, EventsOfVenue(venue_id))
                 /\ bookings' = Remove(bookings, BookingsOfEvents(EventsOfVenue(venue_id)))
                 /\ Respond(req, "ok")
            ELSE \* db.commit() raises: db.rollback(), HTTP 400
                 /\ Respond(req, "StoreFailure")
                 /\ UNCHANGED <<venues, events, bookings>>

\* ---------------------------------------------------------------- events
CreateEvent(venue_id) ==
    LET req == [NoReq EXCEPT !.op = "create_event", !.venue_id = IntV(venue_id)]
    IN
    /\ UNCHANGED <<venues, ticket_types, bookings>>
    /\ IF ~GtZero(venue_id)
       THEN /\ Respond(req, "InvalidArgument")
            /\ UNCHANGED events
       ELSE IF venue_id \notin DOMAIN venues
       THEN /\ Respond(req, "NotFoundVenue")
            /\ UNCHANGED events
       ELSE \E committed \in Commits :
            IF committed
            THEN /\ NextId(events) <= scope.events
                 /\ events' = Insert(events, NextId(events), [venue_id |-> venue_id])
                 /\ Respond([req EXCEPT !.id = NextId(events)], "ok")
            ELSE \* db.commit() raises: db.rollback(), HTTP 400
                 /\ Respond(req, "StoreFailure")
                 /\ UNCHANGED events

UpdateEvent(event_id, venue_id) ==
    LET req == [NoReq EXCEPT !.op = "update_event", !.id = event_id, !.venue_id = venue_id]
    IN
    /\ UNCHANGED <<venues, ticket_types, bookings>>
    /\ IF ~OptGtZero(venue_id)
       THEN /\ Respond(req, "InvalidArgument")
            /\ UNCHANGED events
       ELSE IF event_id \notin DOMAIN events
       THEN /\ Respond(req, "NotFoundEvent")
            /\ UNCHANGED events
       ELSE IF /\ venue_id.kind = "int"
               /\ venue_id.v # events[event_id].venue_id
               /\ venue_id.v \notin DOMAIN venues
       THEN /\ Respond(req, "NotFoundVenue")
            /\ UNCHANGED events
       ELSE IF venue_id.kind = "null"
       THEN \* venue_id is NOT NULL: the commit fails and is rolled back
            /\ Respond(req, "StoreFailure")
            /\ UNCHANGED events
       ELSE \E committed \in Commits :
            IF committed
            THEN /\ events' = IF venue_id.kind = "int"
                              THEN [events EXCEPT ![event_id].venue_id = venue_id.v]
                              ELSE events
                 /\ Respond(req, "ok")
            ELSE \* db.commit() raises: db.rollback(), HTTP 400
                 /\ Respond(req, "StoreFailure")
                 /\ UNCHANGED events

DeleteEvent(event_id) ==
    LET req == [NoReq EXCEPT !.op = "delete_event", !.id = event_id]
    IN
    /\ UNCHANGED <<venues, ticket_types>>
    /\ IF event_id \notin DOMAIN events
       THEN /\ Respond(req, "NotFoundEvent")
            /\ UNCHANGED <<events, bookings>>
       ELSE \* cascade="all, delete-orphan" on Event.bookings
            \E committed \in Commits :
            IF committed
            THEN /\ events' = Remove(events, {event_id})
                 /\ bookings' = Remove(bookings, BookingsOfEvents({event_id}))
                 /\ Respond(req, "ok")
            ELSE \* db.commit() raises: db.rollback(), HTTP 400
                 /\ Respond(req, "StoreFailure")
                 /\ UNCHANGED <<events, bookings>>

\* ---------------------------------------------------------- ticket types
\* the names requests are made with: the first scope.names of these
TicketTypeNames == <<"VIP", "Standard", "Economy", "Balcony">>
NamesInScope == {TicketTypeNames[i] : i \in 1..scope.names}

\* db.query(TicketType).filter(TicketType.name == ticket_type.name).first()
NameExists(name) == \E t \in DOMAIN ticket_types : ticket_types[t].name = name

\* (variant: the rename is not compared with the other ticket types)
NameNeverConflicts(ticket_type_id, name) == FALSE
\* if name and name != ticket_type.name: a row with that name and another id
NameConflicts(ticket_type_id, name) ==
    /\ name.kind = "str"
    /\ name.v # ""
    /\ name.v # ticket_types[ticket_type_id].name
    /\ \E t \in DOMAIN ticket_types :
          t # ticket_type_id /\ ticket_types[t].name = name.v

CreateTicketType(name, price) ==
    LET req == [NoReq EXCEPT !.op = "create_ticket_type", !.name = StrV(name),
                             !.num = IntV(price)]
    IN
    /\ UNCHANGED <<venues, events, bookings>>
    /\ IF ~(MinLength1(name) /\ GtZero(price))
       THEN /\ Respond(req, "InvalidArgument")
            /\ UNCHANGED ticket_types
       ELSE IF NameExists(name)
       THEN /\ Respond(req, "NameTaken")
            /\ UNCHANGED ticket_types
       ELSE \E committed \in Commits :
            IF committed
            THEN /\ NextId(ticket_types) <= scope.ticket_types
                 /\ ticket_types' = Insert(ticket_types, NextId(ticket_types),
                                           [name |-> name, price |-> price])
                 /\ Respond([req EXCEPT !.id = NextId(ticket_types)], "ok")
            ELSE \* db.commit() raises: db.rollback(), HTTP 400
                 /\ Respond(req, "StoreFailure")
                 /\ UNCHANGED ticket_types

UpdateTicketType(ticket_type_id, name, price) ==
    LET req == [NoReq EXCEPT !.op = "update_ticket_type", !.id = ticket_type_id,
                             !.name = name, !.num = price]
    IN
    /\ UNCHANGED <<venues, events, bookings>>
    /\ IF ~(OptMinLength1(name) /\ OptGtZero(price))
       THEN /\ Respond(req, "InvalidArgument")
            /\ UNCHANGED ticket_types
       ELSE IF ticket_type_id \notin DOMAIN ticket_types
       THEN /\ Respond(req, "NotFoundTicketType")
            /\ UNCHANGED ticket_types
       ELSE IF NameConflicts(ticket_type_id, name)
       THEN /\ Respond(req, "NameTaken")
            /\ UNCHANGED ticket_types
       ELSE IF name.kind = "null" \/ price.kind = "null"
       THEN \* name and price are NOT NULL: the commit fails and is rolled back
            /\ Respond(req, "StoreFailure")
            /\ UNCHANGED ticket_types
       ELSE \E committed \in Commits :
            IF committed
            THEN /\ ticket_types' =
                       [ticket_types EXCEPT ![ticket_type_id] =
                           [name |-> IF name.kind = "str" THEN name.v ELSE @.name,
                            price |-> IF price.kind = "int" THEN price.v ELSE @.price]]
                 /\ Respond(req, "ok")
            ELSE \* db.commit() raises: db.rollback(), HTTP 400
                 /\ Respond(req, "StoreFailure")
                 /\ UNCHANGED ticket_types

BookingsOfTicketType(ticket_type_id) ==
    {b \in DOMAIN bookings : bookings[b].ticket_type_id = ticket_type_id}

DeleteTicketType(ticket_type_id) ==
    LET req == [NoReq EXCEPT !.op = "delete_ticket_type", !.id = ticket_type_id]
    IN
    /\ UNCHANGED <<venues, events, bookings>>
    /\ IF ticket_type_id \notin DOMAIN ticket_types
       THEN /\ Respond(req, "NotFoundTicketType")
            /\ UNCHANGED ticket_types
       ELSE IF BookingsOfTicketType(ticket_type_id) # {}
       THEN /\ Respond(req, "HasBookings")
            /\ UNCHANGED ticket_types
       ELSE \E committed \in Commits :
            IF committed
            THEN /\ ticket_types' = Remove(ticket_types, {ticket_type_id})
                 /\ Respond(req, "ok")
            ELSE \* db.commit() raises: db.rollback(), HTTP 400
                 /\ Respond(req, "StoreFailure")
                 /\ UNCHANGED ticket_types

\* -------------------------------------------------------------- bookings
RECURSIVE SumQuantity(_, _)
SumQuantity(bk, S) ==
    IF S = {} THEN 0
    ELSE LET b == CHOOSE x \in S : TRUE
         IN bk[b].quantity + SumQuantity(bk, S \ {b})

\* (variant: the status filter left out of the capacity query)
CountsEveryStatus(status) == TRUE
\* Booking.status.in_(["confirmed", "pending"])
CountsTowardCapacity(status) == status \in {"confirmed", "pending"}

\* create_booking: the rows of the capacity query and their sum
ExistingBookings(bk, event_id) ==
    {b \in DOMAIN bk : bk[b].event_id = event_id /\ CountsTowardCapacity(bk[b].status)}
TotalExistingTickets(bk, event_id) == SumQuantity(bk, ExistingBookings(bk, event_id))

\* (variant: the filter Booking.id != booking_id left out)
OtherBookingsWithSelf(bk, event_id, booking_id) == ExistingBookings(bk, event_id)
\* update_booking: the same query with Booking.id != booking_id
OtherBookings(bk, event_id, booking_id) ==
    {b \in DOMAIN bk : /\ bk[b].event_id = event_id
                       /\ b # booking_id
                       /\ CountsTowardCapacity(bk[b].status)}
\* (variant: the capacity query of update_booking left out)
TotalOtherTicketsUnread(bk, event_id, booking_id) == 0
TotalOtherTickets(bk, event_id, booking_id) ==
    SumQuantity(bk, OtherBookings(bk, event_id, booking_id))

\* (variant: >= in place of >)
ExceedsCapacityOffByOne(total, quantity, capacity) == total + quantity >= capacity
\* if total + quantity > event.venue.capacity: raise
ExceedsCapacity(total, quantity, capacity) == total + quantity > capacity

\* (variant: the quantity left out of the price)
TotalPriceOfOne(price, quantity) == price
\* total_price = ticket_type.price * quantity
TotalPrice(price, quantity) == price * quantity

VenueCapacity(event_id) == venues[events[event_id].venue_id].capacity

\* (variant: quantity without its gt=0)
BookingCreateValidIdsOnly(event_id, ticket_type_id, quantity) ==
    GtZero(event_id) /\ GtZero(ticket_type_id)
\* (variant: quantity with gt=1)
BookingCreateValidStrict(event_id, ticket_type_id, quantity) ==
    quantity > 1 /\ GtZero(event_id) /\ GtZero(ticket_type_id)
\* BookingCreate: quantity, event_id and ticket_type_id are Field(..., gt=0)
BookingCreateValid(event_id, ticket_type_id, quantity) ==
    GtZero(quantity) /\ GtZero(event_id) /\ GtZero(ticket_type_id)

NewBooking(event_id, ticket_type_id, quantity, total_price) ==
    [event_id |-> event_id, ticket_type_id |-> ticket_type_id, quantity |-> quantity,
     total_price |-> total_price, status |-> BookingDefaultStatus]

CreateBooking(event_id, ticket_type_id, quantity) ==
    LET req == [NoReq EXCEPT !.op = "create_booking", !.event_id = event_id,
                             !.ticket_type_id = ticket_type_id, !.num = IntV(quantity)]
        total_existing_tickets == TotalExistingTickets(bookings, event_id)
    IN
    /\ UNCHANGED <<venues, events, ticket_types>>
    /\ IF ~BookingCreateValid(event_id, ticket_type_id, quantity)
       THEN /\ Respond(req, "InvalidArgument")
            /\ UNCHANGED bookings
       ELSE IF event_id \notin DOMAIN events
       THEN /\ Respond(req, "NotFoundEvent")
            /\ UNCHANGED bookings
       ELSE IF ticket_type_id \notin DOMAIN ticket_types
       THEN /\ Respond(req, "NotFoundTicketType")
            /\ UNCHANGED bookings
       ELSE IF ExceedsCapacity(total_existing_tickets, quantity, VenueCapacity(event_id))
       THEN /\ Respond([req EXCEPT !.available = VenueCapacity(event_id)
                                                  - total_existing_tickets],
                       "CapacityExceeded")
            /\ UNCHANGED bookings
       ELSE \E committed \in Commits :
            IF committed
            THEN /\ NextId(bookings) <= scope.bookings
                 /\ bookings' = Insert(bookings, NextId(bookings),
                                       NewBooking(event_id, ticket_type_id, quantity,
                                           TotalPrice(ticket_types[ticket_type_id].price,
                                                      quantity)))
                 /\ Respond([req EXCEPT !.id = NextId(bookings)], "ok")
            ELSE \* db.commit() raises: db.rollback(), HTTP 400
                 /\ Respond(req, "StoreFailure")
                 /\ UNCHANGED bookings

\* BookingUpdate: quantity Field(None, gt=0), status Field(None, regex=...)
BookingUpdateValid(quantity, status) ==
    /\ OptGtZero(quantity)
    /\ status \in StatusPattern \cup {"unset", "null"}

\* (variant: the comparison with the stored quantity left out)
QuantityIsGiven(quantity, booking) == quantity.kind = "int"
\* if booking_update.quantity and booking_update.quantity != booking.quantity
QuantityIsChanged(quantity, booking) ==
    quantity.kind = "int" /\ quantity.v # booking.quantity

\* for field, value in booking_update.dict(exclude_unset=True).items(): setattr(...)
ApplyBookingUpdate(booking, quantity, status) ==
    [booking EXCEPT
        !.quantity = IF quantity.kind = "int" THEN quantity.v ELSE @,
        !.status = IF status # "unset" THEN status ELSE @]

UpdateBooking(booking_id, quantity, status) ==
    LET req == [NoReq EXCEPT !.op = "update_booking", !.id = booking_id,
                             !.num = quantity, !.status = status]
    IN
    /\ UNCHANGED <<venues, events, ticket_types>>
    /\ IF ~BookingUpdateValid(quantity, status)
       THEN /\ Respond(req, "InvalidArgument")
            /\ UNCHANGED bookings
       ELSE IF booking_id \notin DOMAIN bookings
       THEN /\ Respond(req, "NotFoundBooking")
            /\ UNCHANGED bookings
       ELSE LET booking == bookings[booking_id]
                changed == QuantityIsChanged(quantity, booking)
                repriced == IF changed
                            THEN [booking EXCEPT !.total_price =
                                     TotalPrice(ticket_types[booking.ticket_type_id].price,
                                                quantity.v)]
                            ELSE booking
            IN
            IF /\ changed
               /\ ExceedsCapacity(TotalOtherTickets(bookings, booking.event_id, booking_id),
                                  quantity.v, VenueCapacity(booking.event_id))
            THEN /\ Respond(req, "CapacityExceeded")
                 /\ UNCHANGED bookings
            ELSE IF quantity.kind = "null"
            THEN \* quantity is NOT NULL: the commit fails and is rolled back
                 /\ Respond(req, "StoreFailure")
                 /\ UNCHANGED bookings
            ELSE \E committed \in Commits :
                 IF committed
                 THEN /\ bookings' = [bookings EXCEPT ![booking_id] =
                                         ApplyBookingUpdate(repriced, quantity, status)]
                      /\ Respond(req, "ok")
                 ELSE \* db.commit() raises: db.rollback(), HTTP 400
                      /\ Respond(req, "StoreFailure")
                      /\ UNCHANGED bookings

\* (variant: confirmed treated as final too)
LeavesFinal(current, new_status) ==
    current \in {"cancelled", "confirmed"} /\ new_status # current
\* if booking.status == "cancelled" and new_status != "cancelled": raise
LeavesCancelled(current, new_status) == current = "cancelled" /\ new_status # "cancelled"

\* (variant: booking.status assigned and committed before the business rule)
UpdateBookingStatusSetFirst(booking_id, new_status) ==
    LET req == [NoReq EXCEPT !.op = "update_booking_status", !.id = booking_id,
                             !.status = new_status]
    IN
    /\ UNCHANGED <<venues, events, ticket_types>>
    /\ IF new_status \notin StatusPattern
       THEN /\ Respond(req, "InvalidArgument")
            /\ UNCHANGED bookings
       ELSE IF booking_id \notin DOMAIN bookings
       THEN /\ Respond(req, "NotFoundBooking")
            /\ UNCHANGED bookings
       ELSE /\ bookings' = [bookings EXCEPT ![booking_id].status = new_status]
            /\ IF LeavesCancelled(bookings[booking_id].status, new_status)
               THEN Respond(req, "InvalidTransition")
               ELSE Respond(req, "ok")

UpdateBookingStatus(booking_id, new_status) ==
    LET req == [NoReq EXCEPT !.op = "update_booking_status", !.id = booking_id,
                             !.status = new_status]
    IN
    /\ UNCHANGED <<venues, events, ticket_types>>
    /\ IF new_status \notin StatusPattern
       THEN /\ Respond(req, "InvalidArgument")
            /\ UNCHANGED bookings
       ELSE IF booking_id \notin DOMAIN bookings
       THEN /\ Respond(req, "NotFoundBooking")
            /\ UNCHANGED bookings
       ELSE IF LeavesCancelled(bookings[booking_id].status, new_status)
       THEN /\ Respond(req, "InvalidTransition")
            /\ UNCHANGED bookings
       ELSE \E committed \in Commits :
            IF committed
            THEN /\ bookings' = [bookings EXCEPT ![booking_id].status = new_status]
                 /\ Respond(req, "ok")
            ELSE \* db.commit() raises: db.rollback(), HTTP 400
                 /\ Respond(req, "StoreFailure")
                 /\ UNCHANGED bookings

DeleteBooking(booking_id) ==
    LET req == [NoReq EXCEPT !.op = "delete_booking", !.id = booking_id]
    IN
    /\ UNCHANGED <<venues, events, ticket_types>>
    /\ IF booking_id \notin DOMAIN bookings
       THEN /\ Respond(req, "NotFoundBooking")
            /\ UNCHANGED bookings
       ELSE \E committed \in Commits :
            IF committed
            THEN /\ bookings' = Remove(bookings, {booking_id})
                 /\ Respond(req, "ok")
            ELSE \* db.commit() raises: db.rollback(), HTTP 400
                 /\ Respond(req, "StoreFailure")
                 /\ UNCHANGED bookings

\* ------------------------------------------------ requests one at a time
\* Request values: every valid combination, and one request per validation rule
\* that rejects it (a zero where gt=0 is required, a status outside the pattern).
\* A JSON null is drawn for the integer fields; "status": null is not drawn.
BookingCreates ==
    ((1..scope.events) \X (1..scope.ticket_types) \X (0..scope.quantity))
        \cup {<<0, 1, 1>>, <<1, 0, 1>>, <<1, 1, -1>>}
TicketTypeCreates == (NamesInScope \X (0..scope.price)) \cup {<<"", 1>>}
TicketTypeUpdates ==
    (({UnsetName} \cup {StrV(n) : n \in NamesInScope}) \X OptInts(0, scope.price))
        \cup {<<NullName, UnsetV>>, <<StrV(""), UnsetV>>}
BookingUpdates ==
    (({UnsetV} \cup {IntV(n) : n \in 1..scope.quantity})
        \X (StatusPattern \cup {"unset"}))
        \cup {<<NullV, "unset">>, <<IntV(0), "unset">>, <<UnsetV, "refunded">>}

Next ==
    \/ \E c \in 0..scope.capacity : CreateVenue(c)
    \/ \E v \in 1..scope.venues, c \in OptInts(0, scope.capacity) : UpdateVenue(v, c)
    \/ \E v \in 1..scope.venues : DeleteVenue(v)
    \/ \E v \in 0..scope.venues : CreateEvent(v)
    \/ \E e \in 1..scope.events, v \in OptInts(0, scope.venues) : UpdateEvent(e, v)
    \/ \E e \in 1..scope.events : DeleteEvent(e)
    \/ \E r \in TicketTypeCreates : CreateTicketType(r[1], r[2])
    \/ \E t \in 1..scope.ticket_types, u \in TicketTypeUpdates :
          UpdateTicketType(t, u[1], u[2])
    \/ \E t \in 1..scope.ticket_types : DeleteTicketType(t)
    \/ \E r \in BookingCreates : CreateBooking(r[1], r[2], r[3])
    \/ \E b \in 1..scope.bookings, u \in BookingUpdates : UpdateBooking(b, u[1], u[2])
    \/ \E b \in 1..scope.bookings, s \in StatusPattern \cup {"refunded"} :
          UpdateBookingStatus(b, s)
    \/ \E b \in 1..scope.bookings : DeleteBooking(b)

Spec == Init /\ [][Next]_vars

\* the same requests against a store whose commits may fail
InitFaults == EmptyTables /\ scope = FaultScope
SpecFaults == InitFaults /\ [][Next]_vars

\* the same requests, with two ticket types and two names
InitNames == EmptyTables /\ scope = NamesScope
SpecNames == InitNames /\ [][Next]_vars

\* the same requests, with two venues
InitVenues == EmptyTables /\ scope = VenueScope
SpecVenues == InitVenues /\ [][Next]_vars

\* The requests that change no venue's capacity and no event's venue, with
\* update_booking carrying no status field: update_venue and update_event are
\* left out, the creates and deletes of venues, events and ticket types stay.
StatusFreeBookingUpdates == {u \in BookingUpdates : u[2] = "unset"}

NextRestricted ==
    \/ \E c \in 0..scope.capacity : CreateVenue(c)
    \/ \E v \in 1..scope.venues : DeleteVenue(v)
    \/ \E v \in 0..scope.venues : CreateEvent(v)
    \/ \E e \in 1..scope.events : DeleteEvent(e)
    \/ \E r \in TicketTypeCreates : CreateTicketType(r[1], r[2])
    \/ \E t \in 1..scope.ticket_types, u \in TicketTypeUpdates :
          UpdateTicketType(t, u[1], u[2])
    \/ \E t \in 1..scope.ticket_types : DeleteTicketType(t)
    \/ \E r \in BookingCreates : CreateBooking(r[1], r[2], r[3])
    \/ \E b \in 1..scope.bookings, u \in StatusFreeBookingUpdates :
          UpdateBooking(b, u[1], u[2])
    \/ \E b \in 1..scope.bookings, s \in StatusPattern \cup {"refunded"} :
          UpdateBookingStatus(b, s)
    \/ \E b \in 1..scope.bookings : DeleteBooking(b)

InitRestricted == EmptyTables /\ scope = CapacityScope
SpecRestricted == InitRestricted /\ [][NextRestricted]_vars

\* ------------------------------------- create_booking, request by request
\* Each request has its own Session (get_db); the handler's queries and its
\* commit are separate round trips to the database, so the requests of two
\* clients interleave between them.
InProgress == {p \in 1..NumClients : reqs[p].pc # "idle"}

\* lines 15-42: validation, the event and ticket type lookups, the capacity query
ReadForCreateBooking(p, event_id, ticket_type_id, quantity) ==
    LET req == [NoReq EXCEPT !.op = "create_booking", !.event_id = event_id,
                             !.ticket_type_id = ticket_type_id, !.num = IntV(quantity)]
    IN
    /\ reqs[p].pc = "idle"
    /\ UNCHANGED <<venues, events, ticket_types, bookings>>
    /\ IF ~BookingCreateValid(event_id, ticket_type_id, quantity)
       THEN Respond(req, "InvalidArgument")
       ELSE IF event_id \notin DOMAIN events
       THEN Respond(req, "NotFoundEvent")
       ELSE IF ticket_type_id \notin DOMAIN ticket_types
       THEN Respond(req, "NotFoundTicketType")
       ELSE /\ Cardinality(DOMAIN bookings) + Cardinality(InProgress) < scope.bookings
            /\ reqs' = [reqs EXCEPT ![p] =
                  [pc |-> "read", event_id |-> event_id,
                   ticket_type_id |-> ticket_type_id, quantity |-> quantity,
                   total_existing_tickets |-> TotalExistingTickets(bookings, event_id),
                   price |-> ticket_types[ticket_type_id].price, total_price |-> 0]]
            /\ UNCHANGED <<last, before, scope, taskVars>>

\* lines 43-50: the comparison with event.venue.capacity, and the price
CheckForCreateBooking(p) ==
    LET r == reqs[p]
        req == [NoReq EXCEPT !.op = "create_booking", !.event_id = r.event_id,
                             !.ticket_type_id = r.ticket_type_id,
                             !.num = IntV(r.quantity)]
    IN
    /\ r.pc = "read"
    /\ UNCHANGED <<venues, events, ticket_types, bookings>>
    /\ IF ExceedsCapacity(r.total_existing_tickets, r.quantity, VenueCapacity(r.event_id))
       THEN /\ Answer([req EXCEPT !.available = VenueCapacity(r.event_id)
                                                - r.total_existing_tickets],
                      "CapacityExceeded")
            /\ reqs' = [reqs EXCEPT ![p] = Idle]
       ELSE /\ reqs' = [reqs EXCEPT ![p].pc = "checked",
                                    ![p].total_price = TotalPrice(r.price, r.quantity)]
            /\ UNCHANGED <<last, before, scope, taskVars>>

\* db.add(db_booking); db.commit() for the request of client p
InsertRequested(p) ==
    LET r == reqs[p]
        req == [NoReq EXCEPT !.op = "create_booking", !.event_id = r.event_id,
                             !.ticket_type_id = r.ticket_type_id,
                             !.num = IntV(r.quantity)]
    IN
    /\ r.pc = "checked"
    /\ UNCHANGED <<venues, events, ticket_types>>
    /\ reqs' = [reqs EXCEPT ![p] = Idle]
    /\ \E committed \in Commits :
          IF committed
          THEN /\ bookings' = Insert(bookings, NextId(bookings),
                                     NewBooking(r.event_id, r.ticket_type_id,
                                                r.quantity, r.total_price))
               /\ Answer([req EXCEPT !.id = NextId(bookings)], "ok")
          ELSE \* db.commit() raises: db.rollback(), HTTP 400
               /\ Answer(req, "StoreFailure")
               /\ UNCHANGED bookings

\* (variant: the capacity query repeated under a lock held until the commit)
CommitCreateBookingRechecked(p) ==
    /\ reqs[p].pc = "checked"
    /\ ~ExceedsCapacity(TotalExistingTickets(bookings, reqs[p].event_id),
                        reqs[p].quantity, VenueCapacity(reqs[p].event_id))
    /\ InsertRequested(p)
\* lines 52-60: the row is added and committed with no further query
CommitCreateBooking(p) == InsertRequested(p)

NextConc ==
    \/ \E c \in 0..scope.capacity : CreateVenue(c)
    \/ \E v \in 0..scope.venues : CreateEvent(v)
    \/ \E r \in TicketTypeCreates : CreateTicketType(r[1], r[2])
    \/ \E p \in 1..NumClients, r \in BookingCreates :
          ReadForCreateBooking(p, r[1], r[2], r[3])
    \/ \E p \in 1..NumClients : CheckForCreateBooking(p)
    \/ \E p \in 1..NumClients : CommitCreateBooking(p)
    \/ \E b \in 1..scope.bookings, s \in StatusPattern \cup {"refunded"} :
          UpdateBookingStatus(b, s)

InitConc == EmptyTables /\ scope = ConcScope

SpecConc == InitConc /\ [][NextConc]_vars

\* ------------------------------------------------------- the task service
\* A call of a TaskService method runs from start to end: the routes are
\* coroutines that never await while they use the service.
\* ListScope has three tasks that differ in their completed flag only;
\* FieldScope has two tasks, two titles, a description and two updates.
ListScope ==
    [task_ids |-> MaxTaskId, clock |-> NarrowClock, titles |-> NarrowTitles,
     descriptions |-> NarrowDescriptions]
FieldScope ==
    [task_ids |-> NarrowTaskId, clock |-> MaxClock, titles |-> MaxTitles,
     descriptions |-> MaxDescriptions]
TaskScopes == {ListScope, FieldScope}

TitleValues == <<"Task 1", "Task 2", "Task 3">>
DescriptionValues == <<"Test Description", "Original Description">>
TaskTitles == {TitleValues[i] : i \in 1..scope.titles}
TaskDescriptions == {DescriptionValues[i] : i \in 1..scope.descriptions}

\* Clock readings: what matters of a reading is whether it is later than the one
\* before, so a reading is the previous one or the tick after it.
Readings(from) == {t \in from..(from + 1) : t <= scope.clock}

\* the end of a call: what it returned or raised, and the store it started from
Return(call, result) ==
    /\ tlast' = [call EXCEPT !.result = result]
    /\ tbefore' = [tasks |-> tasks, next_id |-> next_id, issued |-> issued]
    /\ UNCHANGED <<bookingVars, scope>>

\* The HTTP status the routes of routers/tasks.py answer with: 201 for the POST,
\* 204 for the DELETE, 200 otherwise, and HTTP_404_NOT_FOUND where the service
\* raised TaskNotFoundError.
TaskHttpStatus(op, result) ==
    CASE result = "TaskNotFoundError" -> 404
      [] op = "create_task" -> 201
      [] op = "delete_task" -> 204
      [] OTHER -> 200

\* (variant: tasks[task_id - 1], the id taken for a position in the list)
MatchesPosition(task_id) == {i \in 1..Len(tasks) : i = task_id}
\* for task in self._tasks: if task.id == task_id (the first match)
Matches(task_id) == {i \in 1..Len(tasks) : tasks[i].id = task_id}
IndexOfTask(task_id) == CHOOSE i \in Matches(task_id) : \A j \in Matches(task_id) : i <= j

\* (variant: tasks = tasks.slice(0, i), everything from the match on removed)
DelFrom(seq, i) == SubSeq(seq, 1, i - 1)
\* del self._tasks[i]
DelAt(seq, i) == SubSeq(seq, 1, i - 1) \o SubSeq(seq, i + 1, Len(seq))

\* (variant: the new task is put in front of the list)
prepend(list, task) == <<task>> \o list
\* self._tasks.append(task)
append(list, task) == Append(list, task)

\* (variant: the id is the position the task will take in the list)
id_by_position == Len(tasks) + 1
\* id=self._next_id
new_id == next_id

\* create_task: created_at and updated_at are two readings of the clock, made
\* one after the other in Task.__post_init__; the second is the same or later
create_task(title, description, updated_at) ==
    LET task == [id |-> new_id, title |-> title, description |-> description,
                 completed |-> FALSE, created_at |-> clock,
                 updated_at |-> updated_at]
    IN
    /\ next_id <= scope.task_ids
    /\ updated_at \in Readings(clock)
    /\ tasks' = append(tasks, task)
    /\ next_id' = next_id + 1
    /\ clock' = updated_at
    /\ issued' = Append(issued, task.id)
    /\ Return([NoCall EXCEPT !.op = "create_task", !.title = StrV(title),
                             !.description = description, !.task = task], "ok")

\* self._tasks.copy()
tasks_copy == tasks

get_all_tasks ==
    /\ UNCHANGED <<tasks, next_id, clock, issued>>
    /\ Return([NoCall EXCEPT !.op = "get_all_tasks", !.list = tasks_copy], "ok")

get_task_by_id(task_id) ==
    LET call == [NoCall EXCEPT !.op = "get_task_by_id", !.task_id = task_id]
    IN
    /\ UNCHANGED <<tasks, next_id, clock, issued>>
    /\ IF Matches(task_id) = {}
       THEN Return(call, "TaskNotFoundError")
       ELSE Return([call EXCEPT !.task = tasks[IndexOfTask(task_id)]], "ok")

\* (variant: Object.assign(existingTask, updates), a None description stored too)
assign_all(task, title, description, completed, now) ==
    [task EXCEPT !.title = IF title.kind # "null" THEN title.v ELSE @,
                 !.description = description,
                 !.completed = IF completed.kind # "null" THEN completed.v ELSE @,
                 !.updated_at = now]
\* update_task, lines 82-93: the three "is not None" assignments and updated_at
assign_provided(task, title, description, completed, now) ==
    [task EXCEPT !.title = IF title.kind # "null" THEN title.v ELSE @,
                 !.description = IF description.kind # "null" THEN description ELSE @,
                 !.completed = IF completed.kind # "null" THEN completed.v ELSE @,
                 !.updated_at = now]

\* update_task: the clock is read after time.sleep(0.001), so the reading is
\* later than every earlier one
update_task(task_id, title, description, completed) ==
    LET now == clock + 1
        call == [NoCall EXCEPT !.op = "update_task", !.task_id = task_id,
                              !.title = title, !.description = description,
                              !.completed = completed]
    IN
    /\ UNCHANGED <<next_id, issued>>
    /\ IF Matches(task_id) = {}
       THEN /\ UNCHANGED <<tasks, clock>>
            /\ Return(call, "TaskNotFoundError")
       ELSE LET i == IndexOfTask(task_id)
                task == assign_provided(tasks[i], title, description, completed, now)
            IN /\ now <= scope.clock
               /\ tasks' = [tasks EXCEPT ![i] = task]
               /\ clock' = now
               /\ Return([call EXCEPT !.task = task], "ok")

\* delete_task: del self._tasks[i] for the first match; returns True
delete_task(task_id) ==
    LET call == [NoCall EXCEPT !.op = "delete_task", !.task_id = task_id]
    IN
    /\ UNCHANGED <<next_id, clock, issued>>
    /\ IF Matches(task_id) = {}
       THEN /\ UNCHANGED tasks
            /\ Return(call, "TaskNotFoundError")
       ELSE /\ tasks' = DelAt(tasks, IndexOfTask(task_id))
            /\ Return(call, "True")

\* (variant: if (!completed) return tasks, the filter applied for True only)
IsCompletedIfAsked(task, completed) == completed => task.completed
\* task.completed == completed
IsCompleted(task, completed) == task.completed = completed

\* [task for task in self._tasks if task.completed == completed]
tasks_by_status(list, completed) ==
    SelectSeq(list, LAMBDA task : IsCompleted(task, completed))

get_tasks_by_status(completed) ==
    /\ UNCHANGED <<tasks, next_id, clock, issued>>
    /\ Return([NoCall EXCEPT !.op = "get_tasks_by_status",
                             !.completed = BoolV(completed),
                             !.list = tasks_by_status(tasks, completed)],
              "ok")

\* (variant: the number of ids handed out)
ids_handed_out == next_id - 1
\* len(self._tasks)
len_tasks == Len(tasks)

get_task_count ==
    /\ UNCHANGED <<tasks, next_id, clock, issued>>
    /\ Return([NoCall EXCEPT !.op = "get_task_count", !.count = len_tasks], "ok")

\* (variant: the list is cleared and the counter is kept)
clear_tasks_only ==
    /\ tasks' = <<>>
    /\ issued' = <<>>
    /\ UNCHANGED <<next_id, clock>>
    /\ Return([NoCall EXCEPT !.op = "clear_all_tasks"], "ok")
\* (variant: the counter is reset and the list is kept)
clear_counter_only ==
    /\ next_id' = 1
    /\ issued' = <<>>
    /\ UNCHANGED <<tasks, clock>>
    /\ Return([NoCall EXCEPT !.op = "clear_all_tasks"], "ok")
\* self._tasks.clear(); self._next_id = 1
clear_all_tasks ==
    /\ tasks' = <<>>
    /\ next_id' = 1
    /\ issued' = <<>>
    /\ UNCHANGED clock
    /\ Return([NoCall EXCEPT !.op = "clear_all_tasks"], "ok")

\* The requests: ids from 1 to MaxTaskId (stored, deleted or never issued); a
\* TaskCreate with or without a description; a TaskUpdate with any of its three
\* fields given or None.
TaskIds == 1..scope.task_ids
OptTitles == {NullName} \cup {StrV(t) : t \in TaskTitles}
OptDescriptions == {NullName} \cup {StrV(d) : d \in TaskDescriptions}
OptBools == {NoneBool, BoolV(TRUE), BoolV(FALSE)}

NextTasks ==
    \/ \E t \in TaskTitles, d \in OptDescriptions, u \in 0..scope.clock :
          create_task(t, d, u)
    \/ get_all_tasks
    \/ \E id \in TaskIds : get_task_by_id(id)
    \/ \E id \in TaskIds, t \in OptTitles, d \in OptDescriptions, c \in OptBools :
          update_task(id, t, d, c)
    \/ \E id \in TaskIds : delete_task(id)
    \/ \E c \in BOOLEAN : get_tasks_by_status(c)
    \/ get_task_count
    \/ clear_all_tasks

InitTasks == EmptyTables /\ scope \in TaskScopes
SpecTasks == InitTasks /\ [][NextTasks]_vars

\* ====================================================================
\* The claims.  They are stated over `last` (the request and its outcome),
\* `before` (the tables the request found) and the tables as they are now,
\* with sums and lookups of their own.
RECURSIVE SumOver(_, _)
SumOver(rows, S) ==
    IF S = {} THEN 0
    ELSE LET b == CHOOSE x \in S : TRUE IN rows[b].quantity + SumOver(rows, S \ {b})

\* quantity held by the pending and confirmed bookings of event e in tables t
Reserved(t, e) ==
    SumOver(t.bookings, {b \in DOMAIN t.bookings :
                            /\ t.bookings[b].event_id = e
                            /\ t.bookings[b].status \in {"pending", "confirmed"}})
\* the same, leaving booking x out
ReservedExcept(t, e, x) ==
    SumOver(t.bookings, {b \in DOMAIN t.bookings :
                            /\ b # x
                            /\ t.bookings[b].event_id = e
                            /\ t.bookings[b].status \in {"pending", "confirmed"}})
CapacityOf(t, e) == t.venues[t.events[e].venue_id].capacity
PriceOf(t, tt) == t.ticket_types[tt].price

IsCreateBooking == last.op = "create_booking"
NotFoundResults == {"NotFoundEvent", "NotFoundTicketType"}

\* C1: for every event, the quantities of its pending and confirmed bookings
\* sum to at most the capacity of its venue, in every reachable state.
C1_ReservedWithinCapacity ==
    \A e \in DOMAIN events : Reserved(Tables, e) <= CapacityOf(Tables, e)

\* C2: a request on a cancelled booking (update_booking or update_booking_status)
\* leaves it cancelled, and fails with InvalidTransition when it asks for pending
\* or confirmed.
C2_CancelledIsTerminal ==
    (/\ last.op \in {"update_booking", "update_booking_status"}
     /\ last.id \in DOMAIN before.bookings
     /\ before.bookings[last.id].status = "cancelled")
    => /\ bookings[last.id].status = "cancelled"
       /\ last.status \in {"pending", "confirmed"} => last.result = "InvalidTransition"

\* C3: a successful create_booking adds exactly one row, for the requested event,
\* ticket type and quantity, pending, priced at the ticket type's price of that
\* moment times the quantity; every other row of every table is unchanged.
C3_CreateBookingEffect ==
    (IsCreateBooking /\ last.result = "ok")
    => LET new == DOMAIN bookings \ DOMAIN before.bookings
       IN /\ Cardinality(new) = 1
          /\ \A b \in new :
                bookings[b] = [event_id |-> last.event_id,
                               ticket_type_id |-> last.ticket_type_id,
                               quantity |-> last.num.v,
                               total_price |-> PriceOf(before, last.ticket_type_id)
                                               * last.num.v,
                               status |-> "pending"]
          /\ DOMAIN before.bookings \subseteq DOMAIN bookings
          /\ \A b \in DOMAIN before.bookings : bookings[b] = before.bookings[b]
          /\ venues = before.venues
          /\ events = before.events
          /\ ticket_types = before.ticket_types

\* a booking of 2 at unit price 2 is stored with total_price 4, next to an older
\* booking priced when the unit price was 1
C3_Witness ==
    /\ IsCreateBooking /\ last.result = "ok"
    /\ last.num.v = 2
    /\ PriceOf(before, last.ticket_type_id) = 2
    /\ bookings[last.id].total_price = 4
    /\ \E b \in DOMAIN before.bookings :
          /\ bookings[b].ticket_type_id = last.ticket_type_id
          /\ bookings[b].total_price = bookings[b].quantity

\* the outcome of create_booking when the payload is validated first
CreateResultInCode(t, e, tt, q) ==
    IF q <= 0 \/ e <= 0 \/ tt <= 0 THEN "InvalidArgument"
    ELSE IF e \notin DOMAIN t.events THEN "NotFoundEvent"
    ELSE IF tt \notin DOMAIN t.ticket_types THEN "NotFoundTicketType"
    ELSE IF Reserved(t, e) + q > CapacityOf(t, e) THEN "CapacityExceeded"
    ELSE "ok"

\* the outcome when the checks run in the order event, ticket type, quantity,
\* capacity
CreateResultAsClaimed(t, e, tt, q) ==
    IF e \notin DOMAIN t.events THEN "NotFoundEvent"
    ELSE IF tt \notin DOMAIN t.ticket_types THEN "NotFoundTicketType"
    ELSE IF q <= 0 THEN "InvalidArgument"
    ELSE IF Reserved(t, e) + q > CapacityOf(t, e) THEN "CapacityExceeded"
    ELSE "ok"

\* C4 (as claimed): create_booking checks event, ticket type, quantity, capacity
\* in that order and returns the error of the first check that fails.
C4_OrderAsClaimed ==
    IsCreateBooking
    => last.result = CreateResultAsClaimed(before, last.event_id, last.ticket_type_id,
                                           last.num.v)

\* C4 (amended): create_booking checks the payload first (quantity, event_id and
\* ticket_type_id positive, else InvalidArgument), then event, ticket type and
\* capacity, and returns the error of the first check that fails.
C4_PayloadCheckedFirst ==
    IsCreateBooking
    => last.result = CreateResultInCode(before, last.event_id, last.ticket_type_id,
                                        last.num.v)

\* no such event, no such ticket type, quantity 0: the answer is InvalidArgument
C4_Witness ==
    /\ IsCreateBooking
    /\ last.event_id > 0 /\ last.event_id \notin DOMAIN before.events
    /\ last.ticket_type_id > 0 /\ last.ticket_type_id \notin DOMAIN before.ticket_types
    /\ last.num.v <= 0
    /\ last.result = "InvalidArgument"

MissingReference ==
    \/ last.event_id \notin DOMAIN before.events
    \/ last.ticket_type_id \notin DOMAIN before.ticket_types

\* C5 (as claimed): create_booking naming no existing event, or no existing
\* ticket type, fails with NotFound and leaves the bookings as they were.
C5_MissingReferenceIsNotFound ==
    (IsCreateBooking /\ MissingReference)
    => last.result \in NotFoundResults /\ bookings = before.bookings

\* C5 (amended): such a request always fails and leaves the bookings as they
\* were; it fails with NotFound when its payload is valid (quantity, event_id and
\* ticket_type_id positive) and with InvalidArgument otherwise.
C5_MissingReferenceFails ==
    (IsCreateBooking /\ MissingReference)
    => /\ bookings = before.bookings
       /\ IF last.num.v > 0 /\ last.event_id > 0 /\ last.ticket_type_id > 0
          THEN last.result \in NotFoundResults
          ELSE last.result = "InvalidArgument"

\* a valid payload for an event that does not exist, while another event has a
\* booking
C5_Witness ==
    /\ IsCreateBooking
    /\ last.num.v > 0
    /\ last.event_id > 0 /\ last.event_id \notin DOMAIN before.events
    /\ last.ticket_type_id \in DOMAIN before.ticket_types
    /\ last.result = "NotFoundEvent"
    /\ bookings # <<>>

\* C6: create_booking with quantity <= 0 fails with InvalidArgument and changes
\* no table, whatever the tables hold.
C6_NonPositiveQuantityRejected ==
    (IsCreateBooking /\ last.num.v <= 0)
    => last.result = "InvalidArgument" /\ Tables = before

\* quantity 0 for an existing event with free capacity and an existing ticket type
C6_Witness ==
    /\ IsCreateBooking
    /\ last.num.v <= 0
    /\ last.event_id \in DOMAIN before.events
    /\ last.ticket_type_id \in DOMAIN before.ticket_types
    /\ Reserved(before, last.event_id) < CapacityOf(before, last.event_id)
    /\ last.result = "InvalidArgument"

\* C7: for an existing event and ticket type and a positive quantity q,
\* create_booking fails with CapacityExceeded exactly when reserved + q exceeds
\* the venue's capacity; it then reports available = capacity - reserved and adds
\* no row; with reserved + q <= capacity it succeeds.
C7_CapacityCheck ==
    (/\ IsCreateBooking
     /\ last.num.v > 0
     /\ last.event_id \in DOMAIN before.events
     /\ last.ticket_type_id \in DOMAIN before.ticket_types)
    => LET reserved == Reserved(before, last.event_id)
           capacity == CapacityOf(before, last.event_id)
       IN IF reserved + last.num.v > capacity
          THEN /\ last.result = "CapacityExceeded"
               /\ last.available = capacity - reserved
               /\ bookings = before.bookings
          ELSE last.result = "ok"

\* the venue is filled by one pending booking of its whole capacity; one more
\* ticket is refused with available = 0
C7_Witness ==
    /\ IsCreateBooking
    /\ last.result = "CapacityExceeded"
    /\ last.num.v = 1
    /\ last.available = 0
    /\ \E b \in DOMAIN before.bookings :
          /\ before.bookings[b].event_id = last.event_id
          /\ before.bookings[b].status = "pending"
          /\ before.bookings[b].quantity = CapacityOf(before, last.event_id)
          /\ before.bookings[b].quantity > 1

IsQuantityChange ==
    /\ last.op = "update_booking"
    /\ last.status \in {"unset", "pending", "confirmed", "cancelled"}
    /\ last.id \in DOMAIN before.bookings
    /\ last.num.kind = "int"
    /\ last.num.v > 0
    /\ last.num.v # before.bookings[last.id].quantity

\* C8: update_booking changing a booking's quantity to q succeeds exactly when
\* the pending and confirmed quantities of the other bookings of its event plus q
\* fit the venue's capacity; otherwise it fails with CapacityExceeded and changes
\* nothing.  On success the quantity is q and total_price is the ticket type's
\* current price times q.
C8_QuantityUpdate ==
    IsQuantityChange
    => LET old == before.bookings[last.id]
           others == ReservedExcept(before, old.event_id, last.id)
       IN IF others + last.num.v > CapacityOf(before, old.event_id)
          THEN last.result = "CapacityExceeded" /\ Tables = before
          ELSE /\ last.result = "ok"
               /\ bookings[last.id].quantity = last.num.v
               /\ bookings[last.id].total_price
                     = PriceOf(before, old.ticket_type_id) * last.num.v

\* a booking of 1, bought at unit price 1, grows to 2 = the whole capacity after
\* the price rose to 2: it is accepted (its own old quantity is not counted) and
\* repriced to 4
C8_Witness ==
    /\ IsQuantityChange
    /\ last.result = "ok"
    /\ last.num.v = 2
    /\ before.bookings[last.id].status = "pending"
    /\ before.bookings[last.id].total_price = 1
    /\ CapacityOf(before, before.bookings[last.id].event_id) = 2
    /\ bookings[last.id].total_price = 4

IsStatusUpdateOfLive ==
    /\ last.op = "update_booking_status"
    /\ last.status \in {"pending", "confirmed", "cancelled"}
    /\ last.id \in DOMAIN before.bookings
    /\ before.bookings[last.id].status \in {"pending", "confirmed"}

\* C9: update_booking_status on a pending or confirmed booking succeeds for
\* pending, confirmed and cancelled alike, whatever the reserved total and the
\* capacity; it sets the status and changes nothing else.
C9_StatusUpdate ==
    IsStatusUpdateOfLive
    => /\ last.result = "ok"
       /\ bookings = [before.bookings EXCEPT ![last.id].status = last.status]
       /\ venues = before.venues
       /\ events = before.events
       /\ ticket_types = before.ticket_types

\* a pending booking of an event already over its venue's capacity is confirmed
C9_Witness ==
    /\ IsStatusUpdateOfLive
    /\ before.bookings[last.id].status = "pending"
    /\ last.status = "confirmed"
    /\ bookings[last.id].status = "confirmed"
    /\ Reserved(before, before.bookings[last.id].event_id)
          > CapacityOf(before, before.bookings[last.id].event_id)

\* C10: a create_booking request that has passed the capacity check on the
\* bookings it read can always commit, whatever other requests have committed
\* since it read: nothing between the check and the commit stops it.
C10_CommitNotGuarded ==
    \A p \in 1..NumClients :
        reqs[p].pc = "checked"
        => /\ reqs[p].total_existing_tickets + reqs[p].quantity
                 <= CapacityOf(Tables, reqs[p].event_id)
           /\ ENABLED CommitCreateBooking(p)

\* two requests read the same bookings, both passed the check and both
\* committed: the event holds more tickets than its venue has places
C10_Witness ==
    /\ InProgress = {}
    /\ IsCreateBooking /\ last.result = "ok"
    /\ Reserved(before, last.event_id) + last.num.v > CapacityOf(before, last.event_id)
    /\ Reserved(Tables, last.event_id) > CapacityOf(Tables, last.event_id)

BookingOps == {"create_booking", "update_booking", "update_booking_status",
               "delete_booking"}
CallerErrors == {"NotFoundEvent", "NotFoundTicketType", "NotFoundBooking",
                 "InvalidArgument", "CapacityExceeded", "InvalidTransition"}

\* C11: a booking operation (create_booking, update_booking,
\* update_booking_status, delete_booking) that ends in NotFound, InvalidArgument,
\* CapacityExceeded or InvalidTransition leaves the four tables exactly as they
\* were when the request arrived.
C11_ErrorsChangeNothing ==
    (last.op \in BookingOps /\ last.result \in CallerErrors) => Tables = before

\* an update_booking asking for a larger quantity and for status confirmed is
\* refused for capacity: the status it carried is not stored either
C11_Witness ==
    /\ last.op = "update_booking"
    /\ last.result = "CapacityExceeded"
    /\ last.status = "confirmed"
    /\ bookings[last.id].status = "pending"
    /\ bookings[last.id].quantity < last.num.v
    /\ Tables = before

\* quantity held by the bookings of event e in tables t whose status is in S
QuantityWithStatus(t, e, S) ==
    SumOver(t.bookings, {b \in DOMAIN t.bookings :
                            /\ t.bookings[b].event_id = e
                            /\ t.bookings[b].status \in S})

\* C12: cancelled bookings do not count toward the reserved capacity: when the
\* event of a create_booking has cancelled bookings, the request succeeds
\* whenever the quantities of the event's bookings other than the cancelled ones,
\* plus the requested quantity, fit the venue's capacity.
C12_CancelledNotCounted ==
    (/\ IsCreateBooking
     /\ last.num.v > 0
     /\ last.event_id \in DOMAIN before.events
     /\ last.ticket_type_id \in DOMAIN before.ticket_types
     /\ QuantityWithStatus(before, last.event_id, {"cancelled"}) > 0
     /\ QuantityWithStatus(before, last.event_id, StatusPattern)
           - QuantityWithStatus(before, last.event_id, {"cancelled"})
           + last.num.v <= CapacityOf(before, last.event_id))
    => /\ last.result = "ok"
       /\ last.id \in DOMAIN bookings \ DOMAIN before.bookings

\* the venue was filled by one booking, that booking was cancelled, and the whole
\* capacity is reserved again
C12_Witness ==
    /\ IsCreateBooking /\ last.result = "ok"
    /\ last.num.v = CapacityOf(before, last.event_id)
    /\ last.num.v > 1
    /\ \E b \in DOMAIN before.bookings :
          /\ before.bookings[b].event_id = last.event_id
          /\ before.bookings[b].status = "cancelled"
          /\ before.bookings[b].quantity = last.num.v

IsDeleteOfEvent ==
    last.op = "delete_event" /\ last.id \in DOMAIN before.events

\* C13: delete_event on an existing event removes that event and every booking
\* whose event_id is that event; the other events, the venues, the ticket types
\* and the bookings of other events are unchanged.
C13_DeleteEventCascade ==
    IsDeleteOfEvent
    => /\ last.result = "ok"
       /\ DOMAIN events = DOMAIN before.events \ {last.id}
       /\ \A e \in DOMAIN events : events[e] = before.events[e]
       /\ DOMAIN bookings = {b \in DOMAIN before.bookings :
                                before.bookings[b].event_id # last.id}
       /\ \A b \in DOMAIN bookings : bookings[b] = before.bookings[b]
       /\ venues = before.venues
       /\ ticket_types = before.ticket_types

\* two events with one booking each: deleting one event removes its booking and
\* keeps the other's
C13_Witness ==
    /\ IsDeleteOfEvent
    /\ \E b \in DOMAIN before.bookings : before.bookings[b].event_id = last.id
    /\ \E b \in DOMAIN before.bookings :
          /\ before.bookings[b].event_id # last.id
          /\ b \in DOMAIN bookings
    /\ Cardinality(DOMAIN bookings) = 1
    /\ Cardinality(DOMAIN events) = 1

\* C14: the only changes of a booking's status that a request ever makes are
\* pending -> confirmed and pending -> cancelled; no booking goes from confirmed
\* back to pending, and none leaves cancelled.
C14_OnlyForwardTransitions ==
    \A b \in DOMAIN bookings \cap DOMAIN before.bookings :
        bookings[b].status # before.bookings[b].status
        => <<before.bookings[b].status, bookings[b].status>>
              \in {<<"pending", "confirmed">>, <<"pending", "cancelled">>}

\* the requests whose number is stored as a capacity, a price or a quantity
StoresANumber ==
    last.op \in {"create_venue", "update_venue", "create_ticket_type",
                 "update_ticket_type", "create_booking", "update_booking"}

\* C15: in every reachable state every venue has capacity > 0, every ticket type
\* has price > 0 and every booking has quantity > 0; a create or update request
\* carrying a non-positive capacity, price or quantity is rejected and stores
\* nothing.
C15_PositiveValues ==
    /\ \A v \in DOMAIN venues : venues[v].capacity > 0
    /\ \A t \in DOMAIN ticket_types : ticket_types[t].price > 0
    /\ \A b \in DOMAIN bookings : bookings[b].quantity > 0
    /\ (StoresANumber /\ last.num.kind = "int" /\ last.num.v <= 0)
       => last.result = "InvalidArgument" /\ Tables = before

\* with a venue, a ticket type and a booking stored, an update of the booking to
\* quantity 0 is rejected
C15_Witness ==
    /\ last.op = "update_booking"
    /\ last.id \in DOMAIN before.bookings
    /\ last.num = IntV(0)
    /\ last.result = "InvalidArgument"
    /\ bookings[last.id].quantity > 0

\* the name of the request is held, in the tables the request found, by a ticket
\* type other than x
HeldByAnother(x) ==
    /\ last.name.kind = "str"
    /\ \E t \in DOMAIN before.ticket_types :
          t # x /\ before.ticket_types[t].name = last.name.v

IsTakenCreate == last.op = "create_ticket_type" /\ HeldByAnother(0)
IsTakenRename ==
    /\ last.op = "update_ticket_type"
    /\ last.id \in DOMAIN before.ticket_types
    /\ HeldByAnother(last.id)

\* C16: with requests executed one at a time, no two ticket types have the same
\* name; a create_ticket_type or update_ticket_type asking for a name that
\* another ticket type holds fails and changes nothing.
C16_NamesUnique ==
    /\ \A a, b \in DOMAIN ticket_types :
          a # b => ticket_types[a].name # ticket_types[b].name
    /\ (IsTakenCreate \/ IsTakenRename)
       => last.result \notin {"ok", "none"} /\ Tables = before

\* two ticket types with different names; renaming one to the other's name is
\* refused
C16_Witness ==
    /\ IsTakenRename
    /\ last.result = "NameTaken"
    /\ Cardinality(DOMAIN ticket_types) = 2
    /\ ticket_types[last.id].name # last.name.v

IsStoreFailure ==
    /\ last.op \in {"create_booking", "update_booking", "update_booking_status"}
    /\ last.result = "StoreFailure"

\* the HTTP statuses that report a caller's error of the kinds NotFound,
\* InvalidArgument, CapacityExceeded and InvalidTransition
CallerErrorStatuses ==
    {HttpStatus(last.op, r) : r \in CallerErrors}

\* C17: when the commit fails in create_booking, update_booking or
\* update_booking_status, the tables are as they were before the request, and the
\* failure is reported as an internal error (a 5xx status), which none of the
\* caller errors NotFound, InvalidArgument, CapacityExceeded and InvalidTransition
\* is reported with.
C17_StoreFailureIsInternal ==
    IsStoreFailure
    => /\ Tables = before
       /\ HttpStatus(last.op, last.result) >= 500
       /\ HttpStatus(last.op, last.result) \notin CallerErrorStatuses

\* ------------------------------------------------ claims, the task service
Range(seq) == {seq[i] : i \in 1..Len(seq)}
StoredIds(list) == {list[i].id : i \in 1..Len(list)}
\* the position of the task with id x in list (ids are distinct there)
PositionOf(list, x) == CHOOSE i \in 1..Len(list) : list[i].id = x
Without(list, i) == [j \in 1..(Len(list) - 1) |-> IF j < i THEN list[j] ELSE list[j + 1]]

\* C18: create_task on a fresh or just cleared service returns a task with id 1,
\* and every later create_task returns the id created before it plus 1; the task
\* returned has completed = False and the title and description of the request.
C18_CreateTaskIds ==
    tlast.op = "create_task"
    => /\ tlast.result = "ok"
       /\ tlast.task.id = IF tbefore.issued = <<>> THEN 1
                          ELSE tbefore.issued[Len(tbefore.issued)] + 1
       /\ tlast.task.completed = FALSE
       /\ tlast.task.title = tlast.title.v
       /\ tlast.task.description = tlast.description

\* the two tasks created so far were deleted, and the next one still gets the
\* id after the last one created
C18_Witness ==
    /\ tlast.op = "create_task"
    /\ tbefore.tasks = <<>>
    /\ Len(tbefore.issued) = 2
    /\ tlast.task.id = 3
    /\ tasks = <<tlast.task>>

IsUpdateOfStored ==
    tlast.op = "update_task" /\ tlast.task_id \in StoredIds(tbefore.tasks)

\* the task as the update's provided fields, and nothing else, would leave it
ProvidedOnly(old) ==
    [old EXCEPT !.title = IF tlast.title.kind = "str" THEN tlast.title.v ELSE @,
                !.description = IF tlast.description.kind = "str"
                                THEN tlast.description ELSE @,
                !.completed = IF tlast.completed.kind = "bool"
                              THEN tlast.completed.v ELSE @]

\* C19 (as claimed): update_task changes only the fields the update provides
\* (title, description, completed with a non-None value) of the task with the
\* given id; its id and its fields not provided, and every other task, keep their
\* values.
C19_OnlyProvidedFieldsChange ==
    IsUpdateOfStored
    => LET i == PositionOf(tbefore.tasks, tlast.task_id)
       IN tasks = [tbefore.tasks EXCEPT ![i] = ProvidedOnly(@)]

\* C19 (amended): update_task changes the fields the update provides and
\* updated_at, which it sets to the time of the call, later than it was; the
\* task's id, created_at and fields not provided, and every other task, keep
\* their values; the task is returned as stored.
C19_ProvidedFieldsAndUpdatedAt ==
    IsUpdateOfStored
    => LET i == PositionOf(tbefore.tasks, tlast.task_id)
       IN /\ tlast.result = "ok"
          /\ tasks[i].updated_at > tbefore.tasks[i].updated_at
          /\ tasks = [tbefore.tasks EXCEPT
                         ![i] = [ProvidedOnly(@) EXCEPT
                                    !.updated_at = tasks[i].updated_at]]
          /\ tlast.task = tasks[i]
          /\ next_id = tbefore.next_id

\* an update that gives a title only, on the second of two tasks, which has a
\* description and is completed: the title changes, the rest stays
C19_Witness ==
    /\ IsUpdateOfStored
    /\ Len(tasks) = 2
    /\ tlast.task_id = tasks[2].id
    /\ tlast.title.kind = "str"
    /\ tlast.description.kind = "null"
    /\ tlast.completed.kind = "null"
    /\ tasks[2].title # tbefore.tasks[2].title
    /\ tasks[2].description.kind = "str"
    /\ tasks[2].completed

\* id x was handed out since the service was constructed or last cleared, and no
\* stored task has it: it was deleted
Freed(list, ids, x) == x \in Range(ids) /\ x \notin StoredIds(list)

C20_DeleteRemovesOne ==
    (tlast.op = "delete_task" /\ tlast.task_id \in StoredIds(tbefore.tasks))
    => /\ tlast.result = "True"
       /\ tasks = Without(tbefore.tasks, PositionOf(tbefore.tasks, tlast.task_id))
C20_FreedIsNotFound ==
    (/\ tlast.op \in {"get_task_by_id", "update_task", "delete_task"}
     /\ Freed(tbefore.tasks, tbefore.issued, tlast.task_id))
    => tlast.result = "TaskNotFoundError" /\ tasks = tbefore.tasks
C20_FreedStaysFreed ==
    \A x \in 1..MaxTaskId + 1 :
        (Freed(tasks, issued, x) /\ tlast'.op # "clear_all_tasks")
        => Freed(tasks', issued', x)

\* C20: delete_task on a stored id returns True and removes exactly that task,
\* the others keeping their values and their order; from then on, until
\* clear_all_tasks is called, no task has that id, and get_task_by_id,
\* update_task and delete_task with it raise TaskNotFoundError.
C20_DeletedStaysDeleted ==
    /\ [](C20_DeleteRemovesOne /\ C20_FreedIsNotFound)
    /\ [][C20_FreedStaysFreed]_vars

\* of three tasks the second was deleted, the first and the third are stored in
\* that order, and a later update_task of the second raises TaskNotFoundError
C20_Witness ==
    /\ tlast.op = "update_task"
    /\ tlast.result = "TaskNotFoundError"
    /\ tlast.task_id = 2
    /\ Len(issued) = 3
    /\ Len(tasks) = 2
    /\ tasks[1].id = 1 /\ tasks[2].id = 3

IsCallById == tlast.op \in {"get_task_by_id", "update_task", "delete_task"}

\* C21: get_task_by_id, update_task and delete_task called with an id that no
\* stored task has raise TaskNotFoundError, which the API answers with HTTP 404,
\* and leave the task list and the next-id counter unchanged.
C21_UnknownIdIsNotFound ==
    (IsCallById /\ \A i \in 1..Len(tbefore.tasks) : tbefore.tasks[i].id # tlast.task_id)
    => /\ tlast.result = "TaskNotFoundError"
       /\ TaskHttpStatus(tlast.op, tlast.result) = 404
       /\ tasks = tbefore.tasks
       /\ next_id = tbefore.next_id

\* the first of three tasks was deleted: get_task_by_id(1) is not found, though
\* the list has a first element
C21_Witness ==
    /\ tlast.op = "get_task_by_id"
    /\ tlast.result = "TaskNotFoundError"
    /\ tlast.task_id = 1
    /\ Len(tasks) = 2
    /\ tasks[1].id = 2 /\ tasks[2].id = 3

\* the tasks of list with completed = c, in the order of list
RECURSIVE Having(_, _)
Having(list, c) ==
    IF list = <<>> THEN <<>>
    ELSE (IF Head(list).completed = c THEN <<Head(list)>> ELSE <<>>)
            \o Having(Tail(list), c)

\* C22: get_tasks_by_status(c) returns exactly the stored tasks whose completed
\* flag is c, in store order; in every state the results for True and for False
\* have no task in common and together hold every stored task.
C22_TasksByStatus ==
    /\ tlast.op = "get_tasks_by_status"
       => tlast.list = Having(tbefore.tasks, tlast.completed.v)
    /\ LET done == tasks_by_status(tasks, TRUE)
           open == tasks_by_status(tasks, FALSE)
       IN /\ StoredIds(done) \cap StoredIds(open) = {}
          /\ StoredIds(done) \cup StoredIds(open) = StoredIds(tasks)
          /\ Len(done) + Len(open) = Len(tasks)

\* of three tasks the second is completed: the call for False returns the first
\* and the third, in that order
C22_Witness ==
    /\ tlast.op = "get_tasks_by_status"
    /\ tlast.completed = BoolV(FALSE)
    /\ Len(tasks) = 3
    /\ tasks[2].completed
    /\ tlast.list = <<tasks[1], tasks[3]>>

\* by how much the last call changed the number of stored tasks
CountChange == Cardinality(DOMAIN tasks) - Cardinality(DOMAIN tbefore.tasks)

\* C23: in every state get_task_count() is the number of tasks get_all_tasks()
\* returns; it is 0 initially, a successful create_task raises it by 1, a
\* successful delete_task lowers it by 1, and update_task and failed calls leave
\* it unchanged.
C23_TaskCount ==
    /\ len_tasks = Cardinality(DOMAIN tasks_copy)
    /\ tlast.op = "get_task_count" => tlast.count = Cardinality(DOMAIN tbefore.tasks)
    /\ tlast.op = "none" => len_tasks = 0
    /\ (tlast.op = "create_task" /\ tlast.result = "ok") => CountChange = 1
    /\ (tlast.op = "delete_task" /\ tlast.result = "True") => CountChange = -1
    /\ (tlast.op = "update_task" \/ tlast.result = "TaskNotFoundError")
       => CountChange = 0

\* three tasks were created and one deleted: the count is 2
C23_Witness ==
    /\ tlast.op = "get_task_count"
    /\ tlast.count = 2
    /\ Len(issued) = 3
    /\ Len(tasks) = 2

\* no task was created since the service was constructed or last cleared
NothingCreatedSince == issued = <<>>

\* C24: clear_all_tasks leaves the store empty and resets the id counter, so
\* that the next create_task, whatever reads come in between, returns id 1.
C24_ClearResets ==
    /\ [](tlast.op = "clear_all_tasks"
          => tasks = <<>> /\ next_id = 1 /\ NothingCreatedSince)
    /\ [][(NothingCreatedSince /\ tlast'.op = "create_task")
          => (tlast'.task.id = 1 /\ tasks' = <<tlast'.task>>)]_vars

\* a task with id 1 created after the clock has moved: tasks were created and
\* the store was cleared before it
C24_Witness ==
    /\ tlast.op = "create_task"
    /\ tlast.task.id = 1
    /\ tlast.task.created_at >= 1
    /\ tasks = <<tlast.task>>

\* the list goes from earlier to later created tasks: ids and creation times
\* never go down along it
InCreationOrder(list) ==
    \A i, j \in 1..Len(list) :
        i < j => /\ list[i].id < list[j].id
                 /\ list[i].created_at <= list[j].created_at

\* C25: get_all_tasks returns the stored tasks in creation order, which is
\* ascending id order, whatever was updated or deleted in between.
C25_CreationOrder ==
    /\ InCreationOrder(tasks_copy)
    /\ tlast.op = "get_all_tasks"
       => /\ tlast.list = tbefore.tasks
          /\ InCreationOrder(tlast.list)

\* tasks 1 and 3 are listed in that order after task 2 was deleted, although
\* task 1 was updated after task 3 was created
C25_Witness ==
    /\ tlast.op = "get_all_tasks"
    /\ Len(tlast.list) = 2
    /\ tlast.list[1].id = 1
    /\ tlast.list[2].id = 3
    /\ tlast.list[1].updated_at > tlast.list[2].created_at

\* C30: the ids of the stored tasks are pairwise distinct and each is below the
\* id counter; an id handed out since the service was constructed or last
\* cleared, freed by delete_task or not, is never given to a new task.
C30_IdsNeverReused ==
    /\ \A i, j \in 1..Len(tasks) : i # j => tasks[i].id # tasks[j].id
    /\ \A i \in 1..Len(tasks) : tasks[i].id >= 1 /\ tasks[i].id < next_id
    /\ \A id \in Range(issued) : id < next_id
    /\ tlast.op = "create_task" => tlast.task.id \notin Range(tbefore.issued)

\* task 1 was deleted while task 2 is stored: the next task gets id 3, not 1
C30_Witness ==
    /\ tlast.op = "create_task"
    /\ tbefore.issued = <<1, 2>>
    /\ StoredIds(tbefore.tasks) = {2}
    /\ tlast.task.id = 3
    /\ StoredIds(tasks) = {2, 3}

\* C26: with no request changing a venue's capacity or an event's venue, and
\* bookings changed only by create_booking, update_booking_status,
\* delete_booking and update_booking without a status field (and the cascades
\* of delete_venue and delete_event), one request at a time, the pending and
\* confirmed quantities of every event sum to at most its venue's capacity.
C26_RestrictedCapacity ==
    \A e \in DOMAIN events :
        /\ events[e].venue_id \in DOMAIN venues
        /\ QuantityWithStatus(Tables, e, {"pending"})
              + QuantityWithStatus(Tables, e, {"confirmed"})
           <= venues[events[e].venue_id].capacity

\* an event filled by one confirmed and one pending booking: raising the
\* quantity of one of them is refused, and the event stays exactly full
C26_Witness ==
    /\ last.op = "update_booking"
    /\ last.status = "unset"
    /\ last.result = "CapacityExceeded"
    /\ \E e \in DOMAIN events :
          /\ bookings[last.id].event_id = e
          /\ QuantityWithStatus(Tables, e, {"pending"}) = 1
          /\ QuantityWithStatus(Tables, e, {"confirmed"}) = 1
          /\ CapacityOf(Tables, e) = 2

\* some event of tables t holds more pending and confirmed tickets than its
\* venue has seats
OverBooked(t) == \E e \in DOMAIN t.events : Reserved(t, e) > CapacityOf(t, e)

\* update_venue on an existing venue, with a capacity below the one it has
IsLoweringOfCapacity ==
    /\ last.op = "update_venue"
    /\ last.id \in DOMAIN before.venues
    /\ last.num.kind = "int"
    /\ last.num.v > 0
    /\ last.num.v < before.venues[last.id].capacity
\* update_event on an existing event, naming another existing venue
IsMoveOfEvent ==
    /\ last.op = "update_event"
    /\ last.id \in DOMAIN before.events
    /\ last.venue_id.kind = "int"
    /\ last.venue_id.v \in DOMAIN before.venues
    /\ last.venue_id.v # before.events[last.id].venue_id
\* the tables the request asks for
AsRequested ==
    IF last.op = "update_venue"
    THEN [before EXCEPT !.venues[last.id].capacity = last.num.v]
    ELSE [before EXCEPT !.events[last.id].venue_id = last.venue_id.v]

\* C27: update_venue lowering a capacity and update_event moving an event to
\* another existing venue are rejected, with the tables unchanged, when the
\* tables they ask for would hold an over-booked event; otherwise they succeed.
C27_OverBookingUpdateRejected ==
    (IsLoweringOfCapacity \/ IsMoveOfEvent)
    => IF OverBooked(AsRequested)
       THEN last.result # "ok" /\ Tables = before
       ELSE last.result = "ok" /\ Tables = AsRequested

\* the part of C27 the code keeps: an update that over-books nothing succeeds
C27_HarmlessUpdateSucceeds ==
    ((IsLoweringOfCapacity \/ IsMoveOfEvent) /\ ~OverBooked(AsRequested))
    => last.result = "ok" /\ Tables = AsRequested
\* moves alone: a move into a venue too small for the event's bookings is refused
C27_OverBookingMoveRejected ==
    (IsMoveOfEvent /\ OverBooked(AsRequested)) => last.result # "ok"

\* the request names, by a positive id, a venue that is not there
NamesMissingVenue ==
    /\ last.venue_id.kind = "int"
    /\ last.venue_id.v > 0
    /\ last.venue_id.v \notin DOMAIN before.venues
\* the bookings of tables t whose event is in venue v
BookingsInVenue(t, v) ==
    {b \in DOMAIN t.bookings :
        \E e \in DOMAIN t.events : /\ t.bookings[b].event_id = e
                                   /\ t.events[e].venue_id = v}

\* C28: with requests one at a time, every event's venue_id names a venue and
\* every booking's event_id and ticket_type_id name an event and a ticket type;
\* create_event and update_event refuse a venue that does not exist,
\* delete_venue removes the venue's events and their bookings, delete_event
\* removes the event's bookings, and delete_ticket_type is refused while a
\* booking refers to the ticket type.
C28_ReferentialIntegrity ==
    /\ \A e \in DOMAIN events : events[e].venue_id \in DOMAIN venues
    /\ \A b \in DOMAIN bookings :
          /\ bookings[b].event_id \in DOMAIN events
          /\ bookings[b].ticket_type_id \in DOMAIN ticket_types
    /\ (last.op = "create_event" /\ NamesMissingVenue)
       => last.result = "NotFoundVenue" /\ Tables = before
    /\ (last.op = "update_event" /\ last.id \in DOMAIN before.events
          /\ NamesMissingVenue)
       => last.result = "NotFoundVenue" /\ Tables = before
    /\ (last.op = "delete_venue" /\ last.id \in DOMAIN before.venues)
       => /\ last.result = "ok"
          /\ DOMAIN venues = DOMAIN before.venues \ {last.id}
          /\ DOMAIN events = {e \in DOMAIN before.events :
                                 before.events[e].venue_id # last.id}
          /\ DOMAIN bookings = DOMAIN before.bookings \ BookingsInVenue(before, last.id)
    /\ (last.op = "delete_event" /\ last.id \in DOMAIN before.events)
       => /\ last.result = "ok"
          /\ \A b \in DOMAIN bookings : before.bookings[b].event_id # last.id
    /\ (/\ last.op = "delete_ticket_type"
        /\ \E b \in DOMAIN before.bookings :
              before.bookings[b].ticket_type_id = last.id)
       => last.result # "ok" /\ Tables = before

\* of two venues the one with an event and a booking is deleted: the event and
\* the booking go with it, the other venue stays
C28_Witness ==
    /\ last.op = "delete_venue"
    /\ last.result = "ok"
    /\ \E e \in DOMAIN before.events : before.events[e].venue_id = last.id
    /\ BookingsInVenue(before, last.id) # {}
    /\ events = <<>>
    /\ bookings = <<>>
    /\ DOMAIN venues # {}

\* booking b was there before the last request and has the quantity it had
KeepsQuantity(b) ==
    b \in DOMAIN before.bookings /\ bookings[b].quantity = before.bookings[b].quantity

\* C29: update_ticket_type changing a price leaves every booking's total_price
\* as it was, and update_booking sets total_price only by repricing a changed
\* quantity; request by request, a booking that keeps its quantity keeps its
\* total_price, and a booking that is new or has a new quantity has total_price
\* = quantity x the price its ticket type had when the request arrived.
C29_TotalPriceFixedAtPricing ==
    /\ last.op = "update_ticket_type" => bookings = before.bookings
    /\ \A b \in DOMAIN bookings :
          IF KeepsQuantity(b)
          THEN bookings[b].total_price = before.bookings[b].total_price
          ELSE /\ last.op \in {"create_booking", "update_booking"}
               /\ last.result = "ok"
               /\ bookings[b].total_price
                     = bookings[b].quantity * PriceOf(before, bookings[b].ticket_type_id)

\* the price of a ticket type goes from 1 to 2 while a booking of 2 tickets
\* bought at 1 exists: the booking still costs 2, not 4
C29_Witness ==
    /\ last.op = "update_ticket_type"
    /\ last.result = "ok"
    /\ PriceOf(before, last.id) = 1
    /\ PriceOf(Tables, last.id) = 2
    /\ \E b \in DOMAIN bookings :
          /\ bookings[b].ticket_type_id = last.id
          /\ bookings[b].quantity = 2
          /\ bookings[b].total_price = 2

====
